---- MODULE Spec2Model ----
(***************************************************************************)
(* Email list cleaner (src/app.py): the per-address validation pipeline    *)
(* validate_email, the SMTP probe verify_smtp and the batch loop           *)
(* process_csv, as a state machine.  A character is a one-character        *)
(* string and a Python str is a sequence of characters, so that strip(),   *)
(* lower(), split('@') and the syntax regex are computed on the text.      *)
(***************************************************************************)
EXTENDS Integers, Sequences, FiniteSets, TLC

\* ------------------------------------------------------------------------
\* Bounds of the model

\* Largest number of rows of the uploaded table.
MaxRows == 2

\* ------------------------------------------------------------------------
\* Characters and the str methods the code calls

LowerLetters ==
    {"a", "b", "c", "d", "e", "f", "g", "h", "i", "j", "k", "l", "m",
     "n", "o", "p", "q", "r", "s", "t", "u", "v", "w", "x", "y", "z"}

UpperLetters ==
    {"A", "B", "C", "D", "E", "F", "G", "H", "I", "J", "K", "L", "M",
     "N", "O", "P", "Q", "R", "S", "T", "U", "V", "W", "X", "Y", "Z"}

Letters == LowerLetters \cup UpperLetters

Digits == {"0", "1", "2", "3", "4", "5", "6", "7", "8", "9"}

\* Characters str.strip() removes from both ends.
Whitespace == {" ", "\t", "\n", "\r"}

\* The alphabet in alphabetical order, for case conversion.
LowerSeq ==
    <<"a", "b", "c", "d", "e", "f", "g", "h", "i", "j", "k", "l", "m",
      "n", "o", "p", "q", "r", "s", "t", "u", "v", "w", "x", "y", "z">>

UpperSeq ==
    <<"A", "B", "C", "D", "E", "F", "G", "H", "I", "J", "K", "L", "M",
      "N", "O", "P", "Q", "R", "S", "T", "U", "V", "W", "X", "Y", "Z">>

\* str.lower() on one character.
LowerChar(c) ==
    IF c \in UpperLetters
    THEN LowerSeq[CHOOSE i \in 1..Len(UpperSeq) : UpperSeq[i] = c]
    ELSE c

\* str.lower()
lower(s) == [i \in 1..Len(s) |-> LowerChar(s[i])]

RECURSIVE LStrip(_)
LStrip(s) ==
    IF s # <<>> /\ Head(s) \in Whitespace THEN LStrip(Tail(s)) ELSE s

RECURSIVE RStrip(_)
RStrip(s) ==
    IF s # <<>> /\ s[Len(s)] \in Whitespace
    THEN RStrip(SubSeq(s, 1, Len(s) - 1))
    ELSE s

\* str.strip()
strip(s) == RStrip(LStrip(s))

HasAt(s) == \E i \in 1..Len(s) : s[i] = "@"

FirstAt(s) ==
    CHOOSE i \in 1..Len(s) : s[i] = "@" /\ \A j \in 1..(i - 1) : s[j] # "@"

\* s.split('@')[1]: the text between the first '@' and the next one (or the
\* end).  Defined only when s holds an '@'; without one Python raises
\* IndexError, which each caller handles.
SplitAt1(s) ==
    LET rest == SubSeq(s, FirstAt(s) + 1, Len(s))
    IN  IF HasAt(rest) THEN SubSeq(rest, 1, FirstAt(rest) - 1) ELSE rest

\* ------------------------------------------------------------------------
\* Module constants and the pure checks

DISPOSABLE_DOMAINS ==
    {<<"m", "a", "i", "l", "i", "n", "a", "t", "o", "r", ".", "c", "o", "m">>,
     <<"g", "u", "e", "r", "r", "i", "l", "l", "a", "m", "a", "i", "l", ".", "c", "o", "m">>,
     <<"t", "e", "m", "p", "-", "m", "a", "i", "l", ".", "o", "r", "g">>,
     <<"t", "h", "r", "o", "w", "a", "w", "a", "y", ".", "e", "m", "a", "i", "l">>,
     <<"1", "0", "m", "i", "n", "u", "t", "e", "m", "a", "i", "l", ".", "c", "o", "m">>,
     <<"t", "r", "a", "s", "h", "m", "a", "i", "l", ".", "c", "o", "m">>,
     <<"t", "e", "m", "p", "m", "a", "i", "l", ".", "c", "o", "m">>,
     <<"y", "o", "p", "m", "a", "i", "l", ".", "c", "o", "m">>,
     <<"m", "a", "i", "l", "d", "r", "o", "p", ".", "c", "c">>,
     <<"m", "o", "h", "m", "a", "l", ".", "c", "o", "m">>,
     <<"s", "h", "a", "r", "k", "l", "a", "s", "e", "r", "s", ".", "c", "o", "m">>,
     <<"g", "u", "e", "r", "r", "i", "l", "l", "a", "m", "a", "i", "l", "b", "l", "o", "c", "k", ".", "c", "o", "m">>,
     <<"g", "r", "r", ".", "l", "a">>,
     <<"s", "p", "a", "m", "4", ".", "m", "e">>,
     <<"e", "m", "a", "i", "l", "o", "n", "d", "e", "c", "k", ".", "c", "o", "m">>,
     <<"f", "a", "k", "e", "i", "n", "b", "o", "x", ".", "c", "o", "m">>}

\* [a-zA-Z0-9._%+-]
LocalChars == Letters \cup Digits \cup {".", "_", "%", "+", "-"}

\* [a-zA-Z0-9.-]
DomainChars == Letters \cup Digits \cup {".", "-"}

\* The pattern ^[a-zA-Z0-9._%+-]+@[a-zA-Z0-9.-]+\.[a-zA-Z]{2,} matched up to
\* the very end of s: p is the '@', q the dot before the final label.
MatchesToEnd(s) ==
    \E p \in 1..Len(s), q \in 1..Len(s) :
        /\ s[p] = "@"
        /\ s[q] = "."
        /\ p > 1
        /\ q > p + 1
        /\ Len(s) - q >= 2
        /\ \A i \in 1..(p - 1) : s[i] \in LocalChars
        /\ \A i \in (p + 1)..(q - 1) : s[i] \in DomainChars
        /\ \A i \in (q + 1)..Len(s) : s[i] \in Letters

\* re.match(pattern, str(email)) is not None.  '$' matches at the end of
\* the string and also just before a newline that ends it.
validate_email_syntax(s) ==
    \/ MatchesToEnd(s)
    \/ /\ s # <<>>
       /\ s[Len(s)] = "\n"
       /\ MatchesToEnd(SubSeq(s, 1, Len(s) - 1))

\* is_disposable_email: the IndexError of split('@')[1] is swallowed.
is_disposable_email(s) ==
    IF HasAt(s) THEN lower(SplitAt1(s)) \in DISPOSABLE_DOMAINS ELSE FALSE

\* ------------------------------------------------------------------------
\* Inputs

\* A cell of the 'Email Address' column: na is pd.isna(cell) (an empty CSV
\* field is read as the float NaN), s is str(cell).
TextCell(s) == [na |-> FALSE, s |-> s]

NaNCell == [na |-> TRUE, s |-> <<"n", "a", "n">>]

\* The cells the rows are drawn from.
Cells ==
    { TextCell(<<"a", "@", "b", ".", "c", "o">>),
      TextCell(<<" ", "A", "@", "B", ".", "c", "o", " ">>),
      TextCell(<<"a", "@", "b", ".", "c">>),
      TextCell(<<" ">>),
      NaNCell,
      TextCell(<<"x", "@", "g", "r", "r", ".", "l", "a">>),
      TextCell(<<"@", "G", "R", "R", ".", "l", "a">>),
      TextCell(<<"c", "@", "d", ".", "i", "o">>) }

Tables == UNION { [1..n -> Cells] : n \in 0..MaxRows }

\* What a DNS query for MX records can give: the records, or one of the
\* failures of dns.resolver.
DnsAnswers == {"records", "NXDOMAIN", "NoAnswer", "NoNameservers", "Timeout"}

\* Reply codes a mail server gives to RCPT TO.
ReplyCodes == {250, 450, 550}

\* What a call into smtplib can raise, by the except clause that catches it.
Exceptions ==
    {"SMTPServerDisconnected", "SMTPConnectError", "socket.timeout", "Exception"}

\* ------------------------------------------------------------------------
\* State

VARIABLES
    df,             \* the table: the sequence of 'Email Address' cells
    use_smtp,       \* the SMTP verification option
    pc,             \* the statement process_csv / validate_email / verify_smtp is at
    idx,            \* index label of the current row (-1 before the first); the
                    \* table has the default 0..N-1 index that pd.read_csv gives
    seen_emails,    \* process_csv: the dedup set
    statuses,       \* process_csv: the Status column being built
    progress,       \* what the progress bar and status text were told, in order
    trace,          \* the network calls and sleeps made, in order
    mx_answer,      \* check_mx_record: what the DNS query for this row's domain gave
    mx_records,     \* verify_smtp: what its own DNS query gave
    smtp_valid,     \* validate_email: first component of verify_smtp's result
    smtp_reason,    \* validate_email: second component of verify_smtp's result
    code,           \* verify_smtp: reply code of RCPT TO (0: not yet bound)
    conn,           \* verify_smtp: the connection of the SMTP object
    raised,         \* verify_smtp: the exception its outer try caught ("none": none)
    is_valid,       \* process_csv: first component of validate_email's result
    reason,         \* process_csv: second component of validate_email's result
    valid_count,    \* process_csv: returned count
    invalid_count   \* process_csv: returned count

vars ==
    <<df, use_smtp, pc, idx, seen_emails, statuses, progress, trace, mx_answer,
      mx_records, smtp_valid, smtp_reason, code, conn, raised, is_valid, reason,
      valid_count, invalid_count>>

total_rows == Len(df)

\* row['Email Address'] of the current iteration
email == df[idx + 1]

\* validate_email: str(email).strip().lower()
email_str == lower(strip(email.s))

\* SeenKey without the lower-casing.
SeenKeyNoLower(cell) == strip(cell.s)

\* process_csv: the key added to seen_emails for an accepted row
SeenKey(cell) == lower(strip(cell.s))

\* process_csv: the processed count shown for the row of index i
ProgressCount(i) == i + 1

\* process_csv: f'Invalid ({reason})'
InvalidStatus(r) == "Invalid (" \o r \o ")"

\* CountValid counting every status that is not the bare word 'Invalid'.
CountValidNotInvalid(ss) == Cardinality({i \in 1..Len(ss) : ss[i] # "Invalid"})

\* process_csv: sum(1 for s in statuses if s == 'Valid')
CountValid(ss) == Cardinality({i \in 1..Len(ss) : ss[i] = "Valid"})

\* process_csv: invalid_count = total_rows - valid_count
InvalidCount(total, valid) == total - valid

Init ==
    /\ df \in Tables
    /\ use_smtp \in BOOLEAN
    /\ pc = "for"
    /\ idx = -1
    /\ seen_emails = {}
    /\ statuses = <<>>
    /\ progress = <<>>
    /\ trace = <<>>
    /\ mx_answer = "unset"
    /\ mx_records = "unset"
    /\ smtp_valid = "unset"
    /\ smtp_reason = "unset"
    /\ code = 0
    /\ conn = "none"
    /\ raised = "none"
    /\ is_valid = FALSE
    /\ reason = "unset"
    /\ valid_count = 0
    /\ invalid_count = 0

\* ------------------------------------------------------------------------
\* process_csv: the loop

\* One more row: the progress bar and the status text are updated, then the
\* row's address is handed to validate_email, whose locals start unbound.
ForNext ==
    /\ pc = "for"
    /\ idx + 1 < total_rows
    /\ idx' = idx + 1
    /\ progress' = Append(progress, [processed |-> ProgressCount(idx'),
                                     total |-> total_rows])
    /\ mx_answer' = "unset"
    /\ mx_records' = "unset"
    /\ smtp_valid' = "unset"
    /\ smtp_reason' = "unset"
    /\ code' = 0
    /\ conn' = "none"
    /\ raised' = "none"
    /\ pc' = "empty"
    /\ UNCHANGED <<df, use_smtp, seen_emails, statuses, trace, is_valid, reason,
                   valid_count, invalid_count>>

\* The rows are exhausted: the Status column is complete and the counts are
\* computed and returned.
ForExit ==
    /\ pc = "for"
    /\ idx + 1 >= total_rows
    /\ valid_count' = CountValid(statuses)
    /\ invalid_count' = InvalidCount(total_rows, valid_count')
    /\ pc' = "done"
    /\ UNCHANGED <<df, use_smtp, idx, seen_emails, statuses, progress, trace,
                   mx_answer, mx_records, smtp_valid, smtp_reason, code, conn,
                   raised, is_valid, reason>>

\* validate_email returns (v, r) to process_csv.
Return(v, r) ==
    /\ is_valid' = v
    /\ reason' = r
    /\ pc' = "record"

\* Record adding the address to the dedup set whatever the outcome.
RecordAlways ==
    /\ pc = "record"
    /\ seen_emails' = seen_emails \cup {SeenKey(email)}
    /\ statuses' = Append(statuses,
                          IF is_valid THEN "Valid" ELSE InvalidStatus(reason))
    /\ pc' = "for"
    /\ UNCHANGED <<df, use_smtp, idx, progress, trace, mx_answer, mx_records,
                   smtp_valid, smtp_reason, code, conn, raised, is_valid, reason,
                   valid_count, invalid_count>>

\* The result of validate_email is recorded: an accepted address joins the
\* dedup set, and the row's status is appended.
Record ==
    /\ pc = "record"
    /\ IF is_valid
       THEN /\ seen_emails' = seen_emails \cup {SeenKey(email)}
            /\ statuses' = Append(statuses, "Valid")
       ELSE /\ seen_emails' = seen_emails
            /\ statuses' = Append(statuses, InvalidStatus(reason))
    /\ pc' = "for"
    /\ UNCHANGED <<df, use_smtp, idx, progress, trace, mx_answer, mx_records,
                   smtp_valid, smtp_reason, code, conn, raised, is_valid, reason,
                   valid_count, invalid_count>>

\* ------------------------------------------------------------------------
\* validate_email

\* What process_csv holds while validate_email runs.
loopVars ==
    <<df, use_smtp, idx, seen_emails, statuses, progress, valid_count,
      invalid_count>>

\* The locals of verify_smtp and what validate_email keeps of its result.
probeVars == <<mx_records, smtp_valid, smtp_reason, code, conn, raised>>

\* validate_email goes on to its next check.
Continue(next) ==
    /\ pc' = next
    /\ UNCHANGED <<is_valid, reason>>

\* if pd.isna(email) or email_str == '' or email_str == 'nan'
CheckEmpty ==
    /\ pc = "empty"
    /\ IF email.na \/ email_str = <<>> \/ email_str = <<"n", "a", "n">>
       THEN Return(FALSE, "Empty email")
       ELSE Continue("duplicate")
    /\ UNCHANGED <<loopVars, trace, mx_answer, probeVars>>

\* if email_str in seen_emails
CheckDuplicate ==
    /\ pc = "duplicate"
    /\ IF email_str \in seen_emails
       THEN Return(FALSE, "Duplicate")
       ELSE Continue("syntax")
    /\ UNCHANGED <<loopVars, trace, mx_answer, probeVars>>

\* CheckSyntax that does not return on a syntax failure.
CheckSyntaxNoReturn ==
    /\ pc = "syntax"
    /\ Continue("disposable")
    /\ UNCHANGED <<loopVars, trace, mx_answer, probeVars>>

\* if not validate_email_syntax(email_str)
CheckSyntax ==
    /\ pc = "syntax"
    /\ IF ~validate_email_syntax(email_str)
       THEN Return(FALSE, "Invalid syntax")
       ELSE Continue("disposable")
    /\ UNCHANGED <<loopVars, trace, mx_answer, probeVars>>

\* if is_disposable_email(email_str)
CheckDisposable ==
    /\ pc = "disposable"
    /\ IF is_disposable_email(email_str)
       THEN Return(FALSE, "Disposable email")
       ELSE Continue("mx")
    /\ UNCHANGED <<loopVars, trace, mx_answer, probeVars>>

\* check_mx_record: True when the query gave records, False on every failure.
check_mx_record(answer) == answer = "records"

\* CheckMX that goes on although the domain has no MX record.
CheckMXNoReturn ==
    /\ pc = "mx"
    /\ \E answer \in DnsAnswers :
        /\ trace' = Append(trace, [op |-> "mx_query", row |-> idx])
        /\ mx_answer' = answer
        /\ Continue("smtp")
    /\ UNCHANGED <<loopVars, probeVars>>

\* The domain is extracted (an address without '@' would return "Invalid
\* format"), then check_mx_record queries the DNS for its MX records.
CheckMX ==
    /\ pc = "mx"
    /\ IF ~HasAt(email_str)
       THEN /\ Return(FALSE, "Invalid format")
            /\ UNCHANGED <<trace, mx_answer>>
       ELSE \E answer \in DnsAnswers :
                /\ trace' = Append(trace, [op |-> "mx_query", row |-> idx])
                /\ mx_answer' = answer
                /\ IF ~check_mx_record(answer)
                   THEN Return(FALSE, "No MX record")
                   ELSE Continue("smtp")
    /\ UNCHANGED <<loopVars, probeVars>>

\* UseSmtp without the rate-limiting sleep.
UseSmtpNoSleep ==
    /\ pc = "smtp"
    /\ trace' = trace
    /\ IF use_smtp THEN Continue("probe") ELSE Return(TRUE, "Valid")
    /\ UNCHANGED <<loopVars, mx_answer, probeVars>>

\* if use_smtp: time.sleep(rate_limit_delay), then verify_smtp is called;
\* otherwise return True, "Valid".
UseSmtp ==
    /\ pc = "smtp"
    /\ IF use_smtp
       THEN /\ trace' = Append(trace, [op |-> "sleep", row |-> idx])
            /\ Continue("probe")
       ELSE /\ trace' = trace
            /\ Return(TRUE, "Valid")
    /\ UNCHANGED <<loopVars, mx_answer, probeVars>>

\* SmtpResult accepting only a confirmed address (if not smtp_valid).
SmtpResultStrict ==
    /\ pc = "smtp_result"
    /\ IF smtp_valid # "True"
       THEN Return(FALSE, smtp_reason)
       ELSE Return(TRUE, "Valid")
    /\ UNCHANGED <<loopVars, trace, mx_answer, probeVars>>

\* if smtp_valid is False: return False, smtp_reason; a None result falls
\* through to return True, "Valid".
SmtpResult ==
    /\ pc = "smtp_result"
    /\ IF smtp_valid = "False"
       THEN Return(FALSE, smtp_reason)
       ELSE Return(TRUE, "Valid")
    /\ UNCHANGED <<loopVars, trace, mx_answer, probeVars>>

\* ------------------------------------------------------------------------
\* verify_smtp

\* verify_smtp returns (v, r) to validate_email.
ProbeReturn(v, r) ==
    /\ smtp_valid' = v
    /\ smtp_reason' = r
    /\ pc' = "smtp_result"
    /\ raised' = raised

\* The reason each except clause of verify_smtp returns.
HandlerReason(exc) ==
    CASE exc = "SMTPServerDisconnected" -> "Server disconnected"
      [] exc = "SMTPConnectError" -> "Connection failed"
      [] exc = "socket.timeout" -> "Timeout"
      [] OTHER -> "SMTP check failed"

\* An exception raised inside the outer try: every clause returns None.
Raise(exc) ==
    /\ raised' = exc
    /\ smtp_valid' = "None"
    /\ smtp_reason' = HandlerReason(exc)
    /\ pc' = "smtp_result"

\* The probe's own MX lookup; any failure returns False, "No MX record".
ProbeResolve ==
    /\ pc = "probe"
    /\ \E answer \in DnsAnswers :
        /\ trace' = Append(trace, [op |-> "probe", row |-> idx])
        /\ mx_records' = answer
        /\ IF answer = "records"
           THEN /\ pc' = "connect"
                /\ UNCHANGED <<smtp_valid, smtp_reason, raised>>
           ELSE ProbeReturn("False", "No MX record")
    /\ UNCHANGED <<loopVars, mx_answer, code, conn, is_valid, reason>>

\* smtplib.SMTP(timeout=timeout); server.connect(mx_host)
ProbeConnect ==
    /\ pc = "connect"
    /\ trace' = Append(trace, [op |-> "connect", row |-> idx])
    /\ \E out \in {"ok"} \cup Exceptions :
        IF out = "ok"
        THEN /\ conn' = "open"
             /\ pc' = "helo"
             /\ UNCHANGED <<smtp_valid, smtp_reason, raised>>
        ELSE /\ conn' = conn
             /\ Raise(out)
    /\ UNCHANGED <<loopVars, mx_answer, mx_records, code, is_valid, reason>>

\* A command of the session raises.  No except clause of verify_smtp closes
\* the connection; whether smtplib released the socket before raising is not
\* decided by this code, so both outcomes are possible.
SessionRaise ==
    \E exc \in Exceptions :
        /\ conn' \in {"open", "closed"}
        /\ Raise(exc)

\* server.helo(server.local_hostname)
ProbeHelo ==
    /\ pc = "helo"
    /\ \/ /\ pc' = "mail"
          /\ UNCHANGED <<conn, smtp_valid, smtp_reason, raised>>
       \/ SessionRaise
    /\ UNCHANGED <<loopVars, trace, mx_answer, mx_records, code, is_valid, reason>>

\* server.mail('verify@example.com')
ProbeMail ==
    /\ pc = "mail"
    /\ \/ /\ pc' = "rcpt"
          /\ UNCHANGED <<conn, smtp_valid, smtp_reason, raised>>
       \/ SessionRaise
    /\ UNCHANGED <<loopVars, trace, mx_answer, mx_records, code, is_valid, reason>>

\* code, message = server.rcpt(email)
ProbeRcpt ==
    /\ pc = "rcpt"
    /\ \/ /\ \E c \in ReplyCodes : code' = c
          /\ pc' = "quit"
          /\ UNCHANGED <<conn, smtp_valid, smtp_reason, raised>>
       \/ /\ code' = code
          /\ SessionRaise
    /\ UNCHANGED <<loopVars, trace, mx_answer, mx_records, is_valid, reason>>

\* The reply code that means the recipient was accepted.
SMTP_OK == 250

\* if code == 250: return True, "Valid"; else: return False, "SMTP rejected"
Classify(c) ==
    IF c = SMTP_OK THEN <<"True", "Valid">> ELSE <<"False", "SMTP rejected">>

\* server.quit() closes the connection, and the reply code is classified;
\* a quit() that raises is caught like any other command of the session.
ProbeQuit ==
    /\ pc = "quit"
    /\ \/ /\ conn' = "closed"
          /\ ProbeReturn(Classify(code)[1], Classify(code)[2])
       \/ SessionRaise
    /\ UNCHANGED <<loopVars, trace, mx_answer, mx_records, code, is_valid, reason>>

\* ------------------------------------------------------------------------
\* Specification

Next ==
    \/ ForNext
    \/ ForExit
    \/ CheckEmpty
    \/ CheckDuplicate
    \/ CheckSyntax
    \/ CheckDisposable
    \/ CheckMX
    \/ UseSmtp
    \/ ProbeResolve
    \/ ProbeConnect
    \/ ProbeHelo
    \/ ProbeMail
    \/ ProbeRcpt
    \/ ProbeQuit
    \/ SmtpResult
    \/ Record

Spec == Init /\ [][Next]_vars

\* ------------------------------------------------------------------------
\* Properties

\* The normalized form of an address: trimmed, lower-cased.
Normalized(cell) == lower(strip(cell.s))

\* The address counts as empty: a missing cell, or nothing (or 'nan') left
\* after normalization.
IsEmptyCell(cell) ==
    cell.na \/ Normalized(cell) = <<>> \/ Normalized(cell) = <<"n", "a", "n">>

\* The rows whose status has been recorded.
Done == 1..Len(statuses)

\* The normalized addresses accepted among the first n rows.
AcceptedBefore(n) ==
    {Normalized(df[i]) : i \in {k \in Done : k <= n /\ statuses[k] = "Valid"}}

\* The reasons an Invalid status can carry.
Reasons ==
    {"Empty email", "Duplicate", "Invalid syntax", "Disposable email",
     "Invalid format", "No MX record", "SMTP rejected"}

InvalidStatuses == {"Invalid (" \o r \o ")" : r \in Reasons}

\* C1: of two rows with the same normalized address, if the earlier one is
\* Valid the later one is "Invalid (Duplicate)"; so no normalized address
\* has two Valid rows, whatever the DNS and SMTP answers were.
C1_DuplicateLaw ==
    /\ \A i, j \in Done :
        (i < j /\ Normalized(df[i]) = Normalized(df[j]) /\ statuses[i] = "Valid")
            => statuses[j] = "Invalid (Duplicate)"
    /\ \A i, j \in Done :
        (statuses[i] = "Valid" /\ statuses[j] = "Valid"
            /\ Normalized(df[i]) = Normalized(df[j])) => i = j

\* Two rows spelled differently with one normalized address, the first
\* Valid and the second reported a duplicate.
C1_Witness ==
    \E i, j \in Done :
        /\ i < j
        /\ df[i] # df[j]
        /\ Normalized(df[i]) = Normalized(df[j])
        /\ statuses[i] = "Valid"
        /\ statuses[j] = "Invalid (Duplicate)"

\* C2: the dedup set changes only when process_csv records a Valid row, and
\* then by gaining that row's normalized address; recording an Invalid row
\* leaves it unchanged.  So the set is exactly the normalized addresses of
\* the Valid rows, and a row is reported "Duplicate" only when an earlier
\* row with its normalized address is Valid.
C2_DedupFrame ==
    /\ [](/\ seen_emails = AcceptedBefore(Len(statuses))
          /\ \A j \in Done :
                statuses[j] = "Invalid (Duplicate)"
                    => \E i \in 1..(j - 1) :
                          /\ statuses[i] = "Valid"
                          /\ Normalized(df[i]) = Normalized(df[j]))
    /\ [][/\ seen_emails' # seen_emails
             => /\ pc = "record"
                /\ is_valid
                /\ seen_emails' = seen_emails \cup {Normalized(email)}
                /\ statuses' = Append(statuses, "Valid")
          /\ (statuses' # statuses /\ statuses'[Len(statuses')] # "Valid")
             => seen_emails' = seen_emails]_vars

\* An address is rejected for a reason other than duplication, and a later
\* row with the same normalized address is accepted.
C2_Witness ==
    \E i, j \in Done :
        /\ i < j
        /\ Normalized(df[i]) = Normalized(df[j])
        /\ statuses[i] = "Invalid (No MX record)"
        /\ statuses[j] = "Valid"

\* The outcome of the first failing check in the fixed order, from the
\* results of the checks.
Reference(cell, seen, mx_found, smtp_on, probe_valid, probe_reason) ==
    CASE IsEmptyCell(cell) -> <<FALSE, "Empty email">>
      [] ~IsEmptyCell(cell) /\ Normalized(cell) \in seen -> <<FALSE, "Duplicate">>
      [] OTHER ->
            IF ~validate_email_syntax(Normalized(cell))
            THEN <<FALSE, "Invalid syntax">>
            ELSE IF is_disposable_email(Normalized(cell))
            THEN <<FALSE, "Disposable email">>
            ELSE IF ~mx_found
            THEN <<FALSE, "No MX record">>
            ELSE IF smtp_on /\ probe_valid = "False"
            THEN <<FALSE, probe_reason>>
            ELSE <<TRUE, "Valid">>

\* C3: validate_email returns the outcome of the first failing check in the
\* order empty, duplicate, syntax, disposable, MX, SMTP (when enabled), and
\* Valid when none fails.  In particular a syntactically invalid address of
\* a disposable domain reports "Invalid syntax", and a well-formed address
\* of a disposable domain reports "Disposable email" without regard to MX.
C3_FirstFailingCheck ==
    pc = "record" =>
        /\ <<is_valid, reason>> =
              Reference(email, seen_emails, check_mx_record(mx_answer),
                        use_smtp, smtp_valid, smtp_reason)
        /\ ( /\ ~IsEmptyCell(email)
             /\ Normalized(email) \notin seen_emails
             /\ ~validate_email_syntax(Normalized(email))
             /\ is_disposable_email(Normalized(email)) )
           => (~is_valid /\ reason = "Invalid syntax")
        /\ ( /\ ~IsEmptyCell(email)
             /\ Normalized(email) \notin seen_emails
             /\ validate_email_syntax(Normalized(email))
             /\ is_disposable_email(Normalized(email)) )
           => (~is_valid /\ reason = "Disposable email" /\ mx_answer = "unset")

\* An address that is both syntactically invalid and of a disposable domain
\* has been given "Invalid syntax".
C3_Witness ==
    /\ pc = "record"
    /\ ~validate_email_syntax(Normalized(email))
    /\ is_disposable_email(Normalized(email))
    /\ ~is_valid
    /\ reason = "Invalid syntax"

\* The row reached the SMTP probe: probing is on and the earlier checks passed.
Probed == use_smtp /\ smtp_valid # "unset"

\* C4 as stated: once the server has answered RCPT TO with a code other
\* than 250, the row is "Invalid (SMTP rejected)".
C4_Original ==
    (pc = "record" /\ Probed /\ code # 0 /\ code # SMTP_OK)
        => (~is_valid /\ reason = "SMTP rejected")

\* C4, amended: for a row that reached the probe, an error raised by any
\* step of the SMTP session (QUIT included) makes the row Valid; a reply of
\* 250 to RCPT TO makes the row Valid; any other reply, when the session
\* then ends without error, makes the row "Invalid (SMTP rejected)".
C4_SmtpOutcome ==
    (pc = "record" /\ Probed) =>
        /\ raised # "none" => is_valid
        /\ code = SMTP_OK => is_valid
        /\ (raised = "none" /\ code # 0 /\ code # SMTP_OK)
              => (~is_valid /\ reason = "SMTP rejected")

\* The server answered RCPT TO with 550, QUIT then raised, and the row is
\* accepted.
C4_Witness ==
    /\ pc = "record"
    /\ Probed
    /\ code = 550
    /\ raised = "SMTPServerDisconnected"
    /\ is_valid

\* C5: a row whose MX check succeeded and whose probe-time MX lookup gave
\* no records or failed is accepted as Valid.
C5_ProbeNoMxAccepted ==
    ( /\ pc = "record"
      /\ use_smtp
      /\ check_mx_record(mx_answer)
      /\ mx_records \notin {"unset", "records"} )
        => is_valid

\* C6: no probe returns while its connection is still open.
C6_ConnectionClosed == pc = "smtp_result" => conn # "open"

\* C7: when the progress sink is told that k rows are processed, the
\* outcomes of rows 1..k have been determined.
C7_ProgressAfterRow ==
    progress # <<>> => Len(statuses) >= progress[Len(progress)].processed

\* The probes of the run, as positions of the trace.
Probes == {k \in 1..Len(trace) : trace[k].op = "probe"}

\* C8: every SMTP probe comes right after a sleep made for the same row,
\* the rows are handled one after the other (each row is probed at most
\* once, in row order, and only while it is the row being evaluated), and
\* without SMTP probing there is no sleep, no probe and no connection.
C8_Pacing ==
    /\ \A k \in Probes :
        k > 1 /\ trace[k - 1] = [op |-> "sleep", row |-> trace[k].row]
    /\ \A k, l \in Probes : k < l => trace[k].row < trace[l].row
    /\ \A k, l \in 1..Len(trace) : k < l => trace[k].row <= trace[l].row
    /\ \A k \in 1..Len(trace) : Len(statuses) <= trace[k].row => trace[k].row = idx
    /\ ~use_smtp => \A k \in 1..Len(trace) : trace[k].op = "mx_query"

\* Two probes were made in one run.
C8_Witness == Cardinality(Probes) >= 2

\* The statuses of the form "Invalid (<reason>)".
CountInvalid == Cardinality({i \in Done : statuses[i] \in InvalidStatuses})

\* C9: when process_csv returns, every row has one status, row by row in
\* input order; valid_count counts the "Valid" statuses, invalid_count the
\* "Invalid (<reason>)" ones, and they add up to the number of rows.
C9_Counts ==
    pc = "done" =>
        /\ Len(statuses) = Len(df)
        /\ \A i \in Done : statuses[i] \in {"Valid"} \cup InvalidStatuses
        /\ \A i \in Done :
              statuses[i] = "Invalid (Empty email)" <=> IsEmptyCell(df[i])
        /\ valid_count = CountValid(statuses)
        /\ invalid_count = CountInvalid
        /\ valid_count + invalid_count = Len(df)

\* A finished run with rows of both kinds.
C9_Witness ==
    /\ pc = "done"
    /\ valid_count >= 1
    /\ invalid_count >= 1

\* C10: a DNS MX query is made for a row only if the row is not empty, not
\* a duplicate, well-formed and not of a disposable domain; an SMTP probe or
\* connection is made for a row only with SMTP probing on, after that row's
\* MX query, and with the MX check succeeded.
C10_CheapChecksFirst ==
    \A k \in 1..Len(trace) :
        LET cell == df[trace[k].row + 1]
        IN  /\ ~IsEmptyCell(cell)
            /\ Normalized(cell) \notin AcceptedBefore(trace[k].row)
            /\ validate_email_syntax(Normalized(cell))
            /\ ~is_disposable_email(Normalized(cell))
            /\ trace[k].op # "mx_query" =>
                  /\ use_smtp
                  /\ \E m \in 1..(k - 1) :
                        trace[m] = [op |-> "mx_query", row |-> trace[k].row]
                  /\ trace[k].row = idx => check_mx_record(mx_answer)

\* A connection was made for one row, and another row was rejected without
\* any network call.
C10_Witness ==
    /\ \E k \in 1..Len(trace) : trace[k].op = "connect"
    /\ \E i \in Done : \A k \in 1..Len(trace) : trace[k].row # i - 1

====
